---------------------------- MODULE Spec2Model ----------------------------
(***************************************************************************)
(* Stellar Pool: the physics engine (src/modules/physics.js) together with *)
(* the callbacks of the game object it reports to (src/game.js).           *)
(*                                                                         *)
(* Numbers.  JavaScript numbers are modelled in fixed point: every length, *)
(* position, velocity and angle-free quantity is an integer count of       *)
(* hundredths (1600 px is 160000, friction 0.98 is the ratio 98/100).  A   *)
(* product or quotient is truncated toward zero to the next hundredth, so  *)
(* that |v * 0.98| < |v| for every non-zero v, as for the floats the code  *)
(* uses.  Masses and restitutions are tenths, elapsed-step multipliers are *)
(* tenths.                                                                 *)
(***************************************************************************)
EXTENDS Integers, Sequences, FiniteSets, TLC

VARIABLES
  stars,        \* PhysicsEngine.stars: sequence of star records
  holes,        \* PhysicsEngine.holes: sequence of hole records
  meteorites,   \* PhysicsEngine.meteorites: sequence of meteorite records
  enabled,      \* PhysicsEngine.enabled
  activeHole,   \* PhysicsEngine.activeHole: id of the hole last selected, or "null"
  camera,       \* gameState.camera
  selectedStar, \* gameState.selectedStar
  score,        \* gameState.score
  dom,          \* the document: inline styles and classes the engine reads and writes
  op,           \* the last operation on the bodies (initialize, shootStar, update,
                \* resetStars), with its inputs and what it found: the stars
                \* (pre), and for update the meteorites and the camera
  events,       \* callbacks of the game invoked by the last operation, in order
  aborted,      \* TRUE when the last operation ended by an uncaught exception
  visited,      \* indices of the stars whose collision tests ran in the last update
  selectPending,\* TRUE from a capture until the next setActiveHole
  shots,        \* number of shootStar calls so far
  ticks,        \* number of update calls so far
  slowFrames,   \* number of update calls whose frame took longer than nominal
  inits,        \* number of initialize calls so far
  gamePaused,   \* gameState.gamePaused
  moves,        \* number of key presses and swipes so far
  game,         \* the other fields of the game: gameState.gameActive, gameOver,
                \* level, timeLeft and dragging, startPos - currentPos (drag),
                \* the handles gameLoopId and timerInterval (0 for null), and
                \* for the properties the handler that ran last and the number
                \* of endGame runs of the current game
  timers,       \* the browser's pending callbacks: the ids of the requested
                \* animation frames, of the intervals and of the timeouts
  mobile        \* MobileSystem.touchActive and longPressTimer (0 for null), and
                \* for the properties the touch event handled last

vars == << stars, holes, meteorites, enabled, activeHole, camera, selectedStar,
           score, dom, op, events, aborted, visited, selectPending,
           shots, ticks, slowFrames, inits, gamePaused, moves,
           game, timers, mobile >>

-----------------------------------------------------------------------------
(* Bounds of the model *)

MaxShots == 2
MaxTicks == 4
MaxInits == 1
MaxSlowFrames == 1
MaxMoves == 1
MaxStarts == 2
MaxTimeouts == 2
MaxEndGames == 2

-----------------------------------------------------------------------------
(* Constants of the engine, in hundredths unless said otherwise *)

friction == 98               \* 0.98, as a percentage
minSpeed == 50               \* 0.5
collisionThreshold == 2500   \* 25
MAX_VELOCITY == 2500         \* 25
STAR_RADIUS == 1600          \* 16
HOLE_RADIUS == 2000          \* 20
METEORITE_RADIUS == 1500     \* 15
POWER_FACTOR == 12           \* 0.12, as a percentage
boardWidth == 160000         \* 1600
boardHeight == 80000         \* 800
holeBouncePower == 200       \* 2
meteoriteBouncePower == 500  \* 5
cameraSpeed == 5             \* 0.05, as a percentage
maxDeltaTime == 30           \* 3, in tenths
useDeltaTime == TRUE

\* mass and restitution in tenths
STAR_PROPERTIES ==
  [ yellow |-> [mass |-> 10, restitution |-> 8],
    blue   |-> [mass |-> 8,  restitution |-> 9],
    red    |-> [mass |-> 12, restitution |-> 7] ]

starElements ==
  << [id |-> "star1", type |-> "yellow"],
     [id |-> "star2", type |-> "blue"],
     [id |-> "star3", type |-> "red"] >>

basePositions ==
  << [x |-> 80000, y |-> 40000],
     [x |-> 85000, y |-> 45000],
     [x |-> 75000, y |-> 45000] >>

-----------------------------------------------------------------------------
(* Arithmetic *)

Abs(a) == IF a < 0 THEN -a ELSE a

Min(a, b) == IF a < b THEN a ELSE b

\* a / b truncated toward zero (b > 0)
Trunc(a, b) == IF a >= 0 THEN a \div b ELSE -((-a) \div b)

RECURSIVE SqrtSearch(_, _, _)
SqrtSearch(n, lo, hi) ==
  IF lo >= hi THEN lo
  ELSE LET mid == (lo + hi + 1) \div 2
       IN  IF mid * mid <= n THEN SqrtSearch(n, mid, hi)
                             ELSE SqrtSearch(n, lo, mid - 1)

\* Math.sqrt on a square of hundredths: the largest r with r * r <= n
MathSqrt(n) == SqrtSearch(n, 0, 46340)

\* beyond this length on one axis a distance is only ever compared with a
\* threshold far below it; squaring it would leave the 32-bit integers
Far == 300 * 100

\* Math.sqrt(dx * dx + dy * dy)
Distance(dx, dy) ==
  IF Abs(dx) >= Far \/ Abs(dy) >= Far THEN Far
  ELSE MathSqrt(dx * dx + dy * dy)

\* Math.cos(Math.atan2(dy, dx)) * power; atan2(0, 0) is 0
CosAtan2(dy, dx, power) ==
  IF dx = 0 /\ dy = 0 THEN power
  ELSE Trunc(dx * power, Distance(dx, dy))

\* Math.sin(Math.atan2(dy, dx)) * power
SinAtan2(dy, dx, power) ==
  IF dx = 0 /\ dy = 0 THEN 0
  ELSE Trunc(dy * power, Distance(dx, dy))

\* parseInt(style) || 0 on an inline length: unset gives NaN, hence 0;
\* "12.34px" gives 12
ParseIntOr0(style) ==
  IF ~style.set THEN 0 ELSE Trunc(style.v, 100) * 100

-----------------------------------------------------------------------------
(* The game object's callbacks (src/game.js) *)

\* the methods the class AchievementManager defines
AchievementManagerMethods ==
  { "initializeAchievements", "loadProgress", "saveProgress", "updateProgress",
    "incrementProgress", "handleConsecutiveHits", "handleArrayProgress",
    "updateSessionTime", "updateExploration", "unlockAchievement",
    "showAchievementNotification", "getUnlockedAchievements", "getAllProgress",
    "getStats", "resetAllAchievements", "onGameStart", "onStarShoot",
    "onStarInHole", "onStarMiss", "onLevelComplete", "onScoreUpdate",
    "onLevelReached", "onPowerupUsed", "onStarUsed", "onCameraMove",
    "onSessionTime", "onGameOver" }

\* CallThrows, had the object every method that is called on it
CallThrows_Never(method) == FALSE

\* calling a method the object does not have raises a TypeError
CallThrows(method) == method \notin AchievementManagerMethods

\* updateScore(points) on a context c: the score is added first, then the
\* achievement check is called
updateScore(c, points) ==
  [c EXCEPT !.score = @ + points,
            !.threw = CallThrows("checkScoreAchievement")]

\* onStarBounce(starId): plays a sound (SoundSystem.play catches its errors)
onStarBounce(c, starId) ==
  [c EXCEPT !.events = Append(@, [type |-> "bounce", star |-> starId])]

\* onStarInHole(starId): the statements after updateScore run only if it returns
onStarInHole(c, starId) ==
  updateScore([c EXCEPT !.events = Append(@, [type |-> "inHole", star |-> starId])],
              100)

\* onStarHitMeteorite(starId)
onStarHitMeteorite(c, starId) ==
  updateScore([c EXCEPT !.events = Append(@, [type |-> "hitMeteorite", star |-> starId])],
              0 - 50)

-----------------------------------------------------------------------------
(* Collision checks of one star.  A context c carries the star, the events  *)
(* emitted so far, the score, and whether an exception is propagating.      *)

\* checkBoundaryCollisions, had the walls reflected without restitution
checkBoundaryCollisions_Elastic(c0) ==
  LET radius == c0.star.radius
      cx == IF c0.star.x < radius
              THEN onStarBounce([c0 EXCEPT !.star.x = radius, !.star.vx = 0 - @],
                                c0.star.id)
            ELSE IF c0.star.x > boardWidth - radius
              THEN onStarBounce([c0 EXCEPT !.star.x = boardWidth - radius,
                                           !.star.vx = 0 - @],
                                c0.star.id)
            ELSE c0
  IN  IF cx.star.y < radius
        THEN onStarBounce([cx EXCEPT !.star.y = radius, !.star.vy = 0 - @],
                          cx.star.id)
      ELSE IF cx.star.y > boardHeight - radius
        THEN onStarBounce([cx EXCEPT !.star.y = boardHeight - radius,
                                     !.star.vy = 0 - @],
                          cx.star.id)
      ELSE cx

checkBoundaryCollisions(c0) ==
  LET radius == c0.star.radius
      cx == IF c0.star.x < radius
              THEN onStarBounce([c0 EXCEPT !.star.x = radius,
                                           !.star.vx = Trunc((0 - @) * c0.star.restitution, 10)],
                                c0.star.id)
            ELSE IF c0.star.x > boardWidth - radius
              THEN onStarBounce([c0 EXCEPT !.star.x = boardWidth - radius,
                                           !.star.vx = Trunc((0 - @) * c0.star.restitution, 10)],
                                c0.star.id)
            ELSE c0
  IN  IF cx.star.y < radius
        THEN onStarBounce([cx EXCEPT !.star.y = radius,
                                     !.star.vy = Trunc((0 - @) * cx.star.restitution, 10)],
                          cx.star.id)
      ELSE IF cx.star.y > boardHeight - radius
        THEN onStarBounce([cx EXCEPT !.star.y = boardHeight - radius,
                                     !.star.vy = Trunc((0 - @) * cx.star.restitution, 10)],
                          cx.star.id)
      ELSE cx

\* HoleCollision, had a hole that is not active pulled the star toward it
HoleCollision_Attracts(c, hole) ==
  LET dx == c.star.x - hole.x
      dy == c.star.y - hole.y
      distance == Distance(dx, dy)
  IN  IF distance < collisionThreshold
        THEN IF hole.isActive
               THEN onStarInHole([c EXCEPT !.star.inHole = TRUE,
                                           !.star.moving = FALSE,
                                           !.star.vx = 0,
                                           !.star.vy = 0,
                                           !.pending = TRUE],
                                 c.star.id)
               ELSE [c EXCEPT !.star.vx = 0 - CosAtan2(dy, dx, holeBouncePower),
                              !.star.vy = 0 - SinAtan2(dy, dx, holeBouncePower)]
        ELSE c

\* HoleCollision, had the capture left the star's velocity as it was
HoleCollision_KeepsVelocity(c, hole) ==
  LET dx == c.star.x - hole.x
      dy == c.star.y - hole.y
      distance == Distance(dx, dy)
  IN  IF distance < collisionThreshold
        THEN IF hole.isActive
               THEN onStarInHole([c EXCEPT !.star.inHole = TRUE,
                                           !.star.moving = FALSE,
                                           !.pending = TRUE],
                                 c.star.id)
               ELSE [c EXCEPT !.star.vx = CosAtan2(dy, dx, holeBouncePower),
                              !.star.vy = SinAtan2(dy, dx, holeBouncePower)]
        ELSE c

\* the body of the forEach of checkHoleCollisions, for one hole
HoleCollision(c, hole) ==
  LET dx == c.star.x - hole.x
      dy == c.star.y - hole.y
      distance == Distance(dx, dy)
  IN  IF distance < collisionThreshold
        THEN IF hole.isActive
               THEN onStarInHole([c EXCEPT !.star.inHole = TRUE,
                                           !.star.moving = FALSE,
                                           !.star.vx = 0,
                                           !.star.vy = 0,
                                           !.pending = TRUE],
                                 c.star.id)
               ELSE [c EXCEPT !.star.vx = CosAtan2(dy, dx, holeBouncePower),
                              !.star.vy = SinAtan2(dy, dx, holeBouncePower)]
        ELSE c

\* HoleLoop, had the forEach gone on to the holes after a capture
RECURSIVE HoleLoop_GoesOn(_, _, _)
HoleLoop_GoesOn(c, hs, k) ==
  IF k > Len(hs) THEN c
  ELSE HoleLoop_GoesOn(HoleCollision(c, hs[k]), hs, k + 1)

RECURSIVE HoleLoop(_, _, _)
HoleLoop(c, hs, k) ==
  IF k > Len(hs) \/ c.threw THEN c
  ELSE HoleLoop(HoleCollision(c, hs[k]), hs, k + 1)

checkHoleCollisions(c, hs) == HoleLoop(c, hs, 1)

\* MeteoriteCollision, had the meteorite pulled the star toward it
MeteoriteCollision_Attracts(c, meteorite) ==
  LET dx == c.star.x - meteorite.x
      dy == c.star.y - meteorite.y
      distance == Distance(dx, dy)
  IN  IF distance < c.star.radius + meteorite.radius
        THEN onStarHitMeteorite(
               [c EXCEPT !.star.vx = 0 - CosAtan2(dy, dx, meteoriteBouncePower),
                         !.star.vy = 0 - SinAtan2(dy, dx, meteoriteBouncePower)],
               c.star.id)
        ELSE c

\* the body of the forEach of checkMeteoriteCollisions, for one meteorite
MeteoriteCollision(c, meteorite) ==
  LET dx == c.star.x - meteorite.x
      dy == c.star.y - meteorite.y
      distance == Distance(dx, dy)
  IN  IF distance < c.star.radius + meteorite.radius
        THEN onStarHitMeteorite(
               [c EXCEPT !.star.vx = CosAtan2(dy, dx, meteoriteBouncePower),
                         !.star.vy = SinAtan2(dy, dx, meteoriteBouncePower)],
               c.star.id)
        ELSE c

RECURSIVE MeteoriteLoop(_, _, _)
MeteoriteLoop(c, ms, k) ==
  IF k > Len(ms) \/ c.threw THEN c
  ELSE MeteoriteLoop(MeteoriteCollision(c, ms[k]), ms, k + 1)

checkMeteoriteCollisions(c, ms) == MeteoriteLoop(c, ms, 1)

-----------------------------------------------------------------------------
(* update *)

\* the limit on deltaTime in update: a raw value above 3 is replaced by 1
DeltaTime(raw) ==
  LET limited == IF raw > maxDeltaTime THEN 10 ELSE raw
  IN  IF ~useDeltaTime THEN 10 ELSE limited

\* friction, displacement and rotation of one star
Integrate(star, deltaTime) ==
  LET vx == Trunc(star.vx * friction, 100)
      vy == Trunc(star.vy * friction, 100)
  IN  [star EXCEPT !.vx = vx,
                   !.vy = vy,
                   !.x = @ + Trunc(vx * deltaTime, 10),
                   !.y = @ + Trunc(vy * deltaTime, 10),
                   !.rotation = @ + Trunc(vx * deltaTime, 100)]

\* "Detener si velocidad es muy baja"
StopIfSlow(star) ==
  LET speed == MathSqrt(star.vx * star.vx + star.vy * star.vy)
  IN  IF speed < minSpeed
        THEN [star EXCEPT !.vx = 0, !.vy = 0, !.moving = FALSE]
        ELSE star

\* updateStarElement: the star's inline position
updateStarElement(d, star) ==
  [d EXCEPT !.stars[star.element] = [present |-> TRUE,
                                     left |-> [set |-> TRUE, v |-> star.x],
                                     top  |-> [set |-> TRUE, v |-> star.y]]]

\* StepStar, had updateStars skipped only the stars that are in a hole
StepStar_SkipsSettledOnly(u, i, deltaTime) ==
  LET star == u.stars[i]
  IN  IF star.inHole THEN u
      ELSE
        LET c0 == [star |-> Integrate(star, deltaTime), events |-> u.events,
                   score |-> u.score, threw |-> FALSE, pending |-> u.pending]
            c1 == checkBoundaryCollisions(c0)
            c2 == checkHoleCollisions(c1, u.holes)
            c3 == IF c2.threw THEN c2 ELSE checkMeteoriteCollisions(c2, u.meteorites)
            st == IF c3.threw THEN c3.star ELSE StopIfSlow(c3.star)
        IN  [u EXCEPT !.stars[i] = st,
                      !.dom = IF c3.threw THEN @ ELSE updateStarElement(@, st),
                      !.events = c3.events,
                      !.score = c3.score,
                      !.threw = c3.threw,
                      !.pending = c3.pending,
                      !.visited = @ \cup {i}]

\* the body of the forEach of updateStars for the star at index i.  The state
\* u carries the star sequence, the document, the events, the score and whether
\* an exception is propagating.
StepStar(u, i, deltaTime) ==
  LET star == u.stars[i]
  IN  IF ~star.moving \/ star.inHole THEN u
      ELSE
        LET c0 == [star |-> Integrate(star, deltaTime), events |-> u.events,
                   score |-> u.score, threw |-> FALSE, pending |-> u.pending]
            c1 == checkBoundaryCollisions(c0)
            c2 == checkHoleCollisions(c1, u.holes)
            c3 == IF c2.threw THEN c2 ELSE checkMeteoriteCollisions(c2, u.meteorites)
            st == IF c3.threw THEN c3.star ELSE StopIfSlow(c3.star)
        IN  [u EXCEPT !.stars[i] = st,
                      !.dom = IF c3.threw THEN @ ELSE updateStarElement(@, st),
                      !.events = c3.events,
                      !.score = c3.score,
                      !.threw = c3.threw,
                      !.pending = c3.pending,
                      !.visited = @ \cup {i}]

RECURSIVE StarLoop(_, _, _)
StarLoop(u, i, deltaTime) ==
  IF i > Len(u.stars) \/ u.threw THEN u
  ELSE StarLoop(StepStar(u, i, deltaTime), i + 1, deltaTime)

updateStars(u, deltaTime) == StarLoop(u, 1, deltaTime)

\* the body of the forEach of updateMeteorites
StepMeteorite(m, deltaTime) ==
  LET radius == m.radius
      x1 == m.x + Trunc(m.vx * deltaTime, 10)
      y1 == m.y + Trunc(m.vy * deltaTime, 10)
      hitX == x1 < radius \/ x1 > boardWidth - radius
      hitY == y1 < radius \/ y1 > boardHeight - radius
  IN  [m EXCEPT !.x = IF hitX THEN (IF x1 < radius THEN radius ELSE boardWidth - radius)
                              ELSE x1,
                !.y = IF hitY THEN (IF y1 < radius THEN radius ELSE boardHeight - radius)
                              ELSE y1,
                !.vx = IF hitX THEN 0 - @ ELSE @,
                !.vy = IF hitY THEN 0 - @ ELSE @,
                !.rotation = @ + Trunc(m.rotationSpeed * deltaTime, 1000)]

updateMeteorites(ms, deltaTime) ==
  [k \in 1..Len(ms) |-> StepMeteorite(ms[k], deltaTime)]

\* the inline positions updateMeteorites writes
updateMeteoriteElements(d, ms) ==
  [d EXCEPT !.meteorites =
     [k \in 1..Len(ms) |-> [left |-> [set |-> TRUE, v |-> ms[k].x],
                            top  |-> [set |-> TRUE, v |-> ms[k].y]]]]

RECURSIVE SumOver(_, _, _)
SumOver(ss, idx, coord) ==
  IF idx = {} THEN 0
  ELSE LET i == CHOOSE j \in idx : TRUE
       IN  (IF coord = "x" THEN ss[i].x ELSE ss[i].y) + SumOver(ss, idx \ {i}, coord)

\* MovingStars, had updateCamera followed every star
MovingStars_All(ss) == 1..Len(ss)

\* the stars updateCamera follows
MovingStars(ss) == { i \in 1..Len(ss) : ss[i].moving /\ ~ss[i].inHole }

updateCamera(cam, ss) ==
  LET movingStars == MovingStars(ss)
      n == Cardinality(movingStars)
  IN  IF n > 0
        THEN LET avgX == Trunc(SumOver(ss, movingStars, "x"), n)
                 avgY == Trunc(SumOver(ss, movingStars, "y"), n)
             IN  [x |-> cam.x + Trunc((avgX - cam.x) * cameraSpeed, 100),
                  y |-> cam.y + Trunc((avgY - cam.y) * cameraSpeed, 100)]
        ELSE cam

-----------------------------------------------------------------------------
(* initialize *)

HoleId(k) == << "hole1", "hole2", "hole3" >>[k]

MeteoriteId(k) == << "meteorite1", "meteorite2", "meteorite3" >>[k]

\* indices of the star elements the document has, in the order of starElements
PresentStars(d) ==
  SelectSeq([i \in 1..Len(starElements) |-> i], LAMBDA i : d.stars[i].present)

\* initializeStars: one star per star element found in the document
initializeStars(d) ==
  LET found == PresentStars(d)
  IN  [n \in 1..Len(found) |->
         LET starInfo == starElements[found[n]]
             element == d.stars[found[n]]
             starProps == STAR_PROPERTIES[starInfo.type]
         IN  [id |-> starInfo.id, type |-> starInfo.type, element |-> found[n],
              x |-> ParseIntOr0(element.left),
              y |-> ParseIntOr0(element.top),
              vx |-> 0, vy |-> 0,
              mass |-> starProps.mass, restitution |-> starProps.restitution,
              moving |-> FALSE, inHole |-> FALSE, rotation |-> 0,
              radius |-> STAR_RADIUS]]

\* initializeHoles: one hole per .hole element; a translate(p%, q%) transform
\* overrides the inline position with that share of the board's size
initializeHoles(d) ==
  [k \in 1..Len(d.holes) |->
     LET element == d.holes[k]
     IN  [id |-> HoleId(k),
          x |-> IF element.translate.set
                  THEN Trunc(d.board.offsetWidth * element.translate.px, 100)
                  ELSE ParseIntOr0(element.left),
          y |-> IF element.translate.set
                  THEN Trunc(d.board.offsetHeight * element.translate.py, 100)
                  ELSE ParseIntOr0(element.top),
          radius |-> HOLE_RADIUS,
          isActive |-> element.active]]

\* initializeMeteorites: rnd[k] holds the three Math.random() results of
\* meteorite k, already scaled: velocity in [-1, 1), rotation speed in [-2, 2)
initializeMeteorites(d, rnd) ==
  [k \in 1..Len(d.meteorites) |->
     [id |-> MeteoriteId(k),
      x |-> ParseIntOr0(d.meteorites[k].left),
      y |-> ParseIntOr0(d.meteorites[k].top),
      radius |-> METEORITE_RADIUS,
      vx |-> rnd[k].vx, vy |-> rnd[k].vy,
      rotationSpeed |-> rnd[k].rotationSpeed,
      rotation |-> 0]]

\* Math.floor(Math.random() * length)
RandomIndexes(length) == IF length = 0 THEN {0} ELSE 0..(length - 1)

\* setActiveHoleFlags, had the holes not been cleared first
setActiveHoleFlags_NoClear(hs, randomIndex) ==
  [k \in 1..Len(hs) |-> [hs[k] EXCEPT !.isActive = @ \/ (k = randomIndex + 1)]]

\* setActiveHole with the random index drawn: every hole is cleared, then the
\* hole at the index (if there is one) is made active
setActiveHoleFlags(hs, randomIndex) ==
  [k \in 1..Len(hs) |-> [hs[k] EXCEPT !.isActive = (k = randomIndex + 1)]]

\* setActiveHoleId, had the hole at the index been recorded without a test
setActiveHoleId_Untested(hs, randomIndex, old) == HoleId(randomIndex + 1)

\* this.activeHole after setActiveHole: written only if there is a hole at the
\* index
setActiveHoleId(hs, randomIndex, old) ==
  IF randomIndex + 1 \in 1..Len(hs) THEN hs[randomIndex + 1].id ELSE old

\* the "active" classes setActiveHole leaves in the document
setActiveHoleClasses(d, hs) ==
  [d EXCEPT !.holes = [k \in 1..Len(@) |-> [@[k] EXCEPT !.active = hs[k].isActive]]]

-----------------------------------------------------------------------------
(* Inputs *)

Unset == [set |-> FALSE, v |-> 0]
Px(n) == [set |-> TRUE, v |-> n * 100]
At(x, y) == [present |-> TRUE, left |-> Px(x), top |-> Px(y)]
Unstyled == [present |-> TRUE, left |-> Unset, top |-> Unset]
Missing == [present |-> FALSE, left |-> Unset, top |-> Unset]
NoTranslate == [set |-> FALSE, px |-> 0, py |-> 0]
HoleAt(x, y, cls) ==
  [left |-> Px(x), top |-> Px(y), active |-> cls, translate |-> NoTranslate]

\* the documents the game may be loaded in: the elements star1, star2, star3,
\* the .hole elements and the .meteorite elements in document order, and the
\* size of the board element
Documents ==
  { \* inline positions: two holes above star1, star2 within the threshold
    \* of the second hole only once it moves up, a meteorite above star2
    [ stars |-> << At(800, 400), At(824, 383), Missing >>,
      holes |-> << HoleAt(800, 375, TRUE), HoleAt(803, 375, TRUE) >>,
      meteorites |-> << [left |-> Px(824), top |-> Px(351)] >>,
      board |-> [offsetWidth |-> 160000, offsetHeight |-> 80000] ],
    \* no inline positions on stars and holes; the second hole is placed by a
    \* transform; a meteorite next to the left edge
    [ stars |-> << Unstyled, Missing, Unstyled >>,
      holes |-> << [left |-> Unset, top |-> Unset, active |-> FALSE,
                    translate |-> NoTranslate],
                   [left |-> Unset, top |-> Unset, active |-> FALSE,
                    translate |-> [set |-> TRUE, px |-> 1, py |-> 2]] >>,
      meteorites |-> << [left |-> Px(16), top |-> Px(20)] >>,
      board |-> [offsetWidth |-> 160000, offsetHeight |-> 80000] ],
    \* stars in the far corner, no hole, no meteorite
    [ stars |-> << At(1580, 780), At(1570, 400), At(800, 782) >>,
      holes |-> << >>,
      meteorites |-> << >>,
      board |-> [offsetWidth |-> 160000, offsetHeight |-> 80000] ] }

\* a board on which a star lies between two meteorites and overlaps both,
\* and another star overlaps the second of them only
HazardDocuments ==
  { [ stars |-> << At(800, 400), At(830, 400), Missing >>,
      holes |-> << HoleAt(200, 200, FALSE) >>,
      meteorites |-> << [left |-> Px(790), top |-> Px(400)],
                        [left |-> Px(810), top |-> Px(400)] >>,
      board |-> [offsetWidth |-> 160000, offsetHeight |-> 80000] ] }

\* a board with a hole just below a star that lies next to the top edge,
\* another hole far from every star, and no meteorite
FlightDocuments ==
  { [ stars |-> << At(800, 20), At(400, 400), Missing >>,
      holes |-> << HoleAt(800, 30, FALSE), HoleAt(200, 600, FALSE) >>,
      meteorites |-> << >>,
      board |-> [offsetWidth |-> 160000, offsetHeight |-> 80000] ] }

\* results of the Math.random() calls of initializeMeteorites
MeteoriteRandoms ==
  { [vx |-> 0 - 50, vy |-> 99, rotationSpeed |-> 0 - 200],
    [vx |-> 0, vy |-> 0, rotationSpeed |-> 100] }

\* drags: startPos - currentPos, in hundredths of a pixel
Drags == { << 0, 0 >>, << 0, 0 - 200 >>, << 0, 0 - 500 >>, << 18000, 24000 >> }

\* handleMouseUp: the drag distance it passes to shootStar
DragDistance(dx, dy) == MathSqrt(dx * dx + dy * dy)

\* the dragDistance arguments shootStar is called with for a drag: the length
\* of the drag, as handleMouseUp computes it, and for the drag of length zero
\* also a distance that has nothing to do with the drag
DragDistances(dx, dy) ==
  IF dx = 0 /\ dy = 0 THEN { 0, 30000 } ELSE { DragDistance(dx, dy) }

\* raw elapsed time of a frame over 16.67 ms, in tenths
RawDeltaTimes == { 10, 30, 40 }

-----------------------------------------------------------------------------
(* The operations *)

NoOp(name) == [name |-> name]

InitOn(documents) ==
  /\ stars = << >>
  /\ holes = << >>
  /\ meteorites = << >>
  /\ enabled = TRUE
  /\ activeHole = "null"
  /\ camera = [x |-> 80000, y |-> 40000]
  /\ selectedStar = "star1"
  /\ score = 0
  /\ dom \in documents
  /\ op = NoOp("constructor")
  /\ events = << >>
  /\ aborted = FALSE
  /\ visited = {}
  /\ selectPending = FALSE
  /\ shots = 0
  /\ ticks = 0
  /\ slowFrames = 0
  /\ inits = 0
  /\ gamePaused = FALSE
  /\ moves = 0
  /\ game = [gameActive |-> FALSE, gameOver |-> FALSE, level |-> 1,
              timeLeft |-> 60, dragging |-> FALSE, drag |-> << 0, 0 >>,
              gameLoopId |-> 0, timerInterval |-> 0,
              handler |-> "constructor", endGames |-> 0]
  /\ timers = [frames |-> {}, intervals |-> {}, timeouts |-> {}]
  /\ mobile = [touchActive |-> FALSE, longPressTimer |-> 0, lastTouch |-> "none"]

Init == InitOn(Documents)

\* the game loaded on the board with the hole next to the edge
InitFlight == InitOn(FlightDocuments)

\* the game loaded on a board crowded with meteorites
InitHazards == InitOn(HazardDocuments)

\* initialize(): the stars, holes and meteorites are rebuilt from the document,
\* then setActiveHole picks the active hole
InitializeStep ==
  /\ \E rnd \in [1..Len(dom.meteorites) -> MeteoriteRandoms],
        randomIndex \in RandomIndexes(Len(dom.holes)) :
        LET hs == setActiveHoleFlags(initializeHoles(dom), randomIndex)
        IN  /\ stars' = initializeStars(dom)
            /\ holes' = hs
            /\ meteorites' = initializeMeteorites(dom, rnd)
            /\ activeHole' = setActiveHoleId(hs, randomIndex, activeHole)
            /\ dom' = setActiveHoleClasses(dom, hs)
  /\ selectPending' = FALSE
  /\ inits' = inits + 1
  /\ op' = NoOp("initialize")
  /\ events' = << >>
  /\ aborted' = FALSE
  /\ visited' = {}
  /\ UNCHANGED << enabled, selectedStar, shots, ticks, slowFrames, moves >>

Initialize ==
  /\ inits < MaxInits
  /\ InitializeStep
  /\ UNCHANGED << camera, score, gamePaused, game, timers, mobile >>

\* startGame calls initialize (through initializeLevel) before it starts the
\* game loop and before any input handler passes its gameActive test
Initialized == inits > 0

\* index of the star with the given id, or 0
FindStar(ss, id) ==
  IF \E i \in 1..Len(ss) : ss[i].id = id
    THEN CHOOSE i \in 1..Len(ss) : ss[i].id = id
    ELSE 0

\* ShotVelocity, had the power not been limited to MAX_VELOCITY
ShotVelocity_NoCap(star, dx, dy, dragDistance) ==
  LET directionLength == MathSqrt(dx * dx + dy * dy)
      power == Trunc(dragDistance * POWER_FACTOR, 100)
  IN  [vx |-> Trunc(dx * power * 10, directionLength * star.mass),
       vy |-> Trunc(dy * power * 10, directionLength * star.mass)]

\* the velocity shootStar gives a star
ShotVelocity(star, dx, dy, dragDistance) ==
  LET directionLength == MathSqrt(dx * dx + dy * dy)
      power == Min(Trunc(dragDistance * POWER_FACTOR, 100), MAX_VELOCITY)
  IN  [vx |-> Trunc(dx * power * 10, directionLength * star.mass),
       vy |-> Trunc(dy * power * 10, directionLength * star.mass)]

\* ShootEffect, had the shot left the inHole flag as it was
ShootEffect_KeepsInHole(star, v) ==
  [star EXCEPT !.vx = v.vx, !.vy = v.vy, !.moving = TRUE]

\* what shootStar does to the star it shoots
ShootEffect(star, v) ==
  [star EXCEPT !.vx = v.vx, !.vy = v.vy, !.moving = TRUE, !.inHole = FALSE]

\* the early returns of shootStar
ShootReturnsEarly(ss, sel, dx, dy) ==
  \/ sel = "null"
  \/ ~enabled
  \/ FindStar(ss, sel) = 0
  \/ MathSqrt(dx * dx + dy * dy) = 0

\* shootStar, had the shot brought every other star to rest
shootStar_StopsOthers(ss, sel, dx, dy, dragDistance) ==
  IF ShootReturnsEarly(ss, sel, dx, dy) THEN ss
  ELSE LET i == FindStar(ss, sel)
       IN  [j \in 1..Len(ss) |->
              IF j = i THEN ShootEffect(ss[j], ShotVelocity(ss[j], dx, dy, dragDistance))
              ELSE [ss[j] EXCEPT !.vx = 0, !.vy = 0, !.moving = FALSE]]

\* shootStar, had a drag of length zero shot the star with no velocity
shootStar_ZeroDragShoots(ss, sel, dx, dy, dragDistance) ==
  IF sel = "null" \/ ~enabled \/ FindStar(ss, sel) = 0 THEN ss
  ELSE LET i == FindStar(ss, sel)
       IN  IF MathSqrt(dx * dx + dy * dy) = 0
             THEN [ss EXCEPT ![i] = ShootEffect(@, [vx |-> 0, vy |-> 0])]
             ELSE [ss EXCEPT ![i] = ShootEffect(@, ShotVelocity(@, dx, dy, dragDistance))]

\* the star sequence after shootStar(gameState, dragDistance, dragTime)
shootStar(ss, sel, dx, dy, dragDistance) ==
  IF ShootReturnsEarly(ss, sel, dx, dy) THEN ss
  ELSE LET i == FindStar(ss, sel)
       IN  [ss EXCEPT ![i] = ShootEffect(@, ShotVelocity(@, dx, dy, dragDistance))]

ShootStar ==
  /\ Initialized
  /\ shots < MaxShots
  /\ \E d \in Drags :
     \E dragDistance \in DragDistances(d[1], d[2]) :
       /\ stars' = shootStar(stars, selectedStar, d[1], d[2], dragDistance)
       /\ op' = [name |-> "shootStar", star |-> FindStar(stars, selectedStar),
                 pre |-> stars, dx |-> d[1], dy |-> d[2],
                 dragDistance |-> dragDistance]
  /\ shots' = shots + 1
  /\ events' = << >>
  /\ aborted' = FALSE
  /\ visited' = {}
  /\ UNCHANGED << holes, meteorites, enabled, activeHole, camera, selectedStar,
                  score, dom, selectPending, ticks, slowFrames, inits,
                  gamePaused, moves, game, timers, mobile >>

\* the state the engine and the document are left in by update(gameState) when
\* the frame's raw normalised duration is raw
update(raw) ==
  LET deltaTime == DeltaTime(raw)
      u == updateStars([stars |-> stars, holes |-> holes,
                        meteorites |-> meteorites, dom |-> dom,
                        events |-> << >>, score |-> score,
                        threw |-> FALSE, pending |-> selectPending,
                        visited |-> {}, camera |-> camera],
                       deltaTime)
  IN  IF u.threw THEN u
      ELSE LET ms == updateMeteorites(meteorites, deltaTime)
           IN  [u EXCEPT !.meteorites = ms,
                         !.dom = updateMeteoriteElements(@, ms),
                         !.camera = updateCamera(camera, u.stars)]

\* update(gameState) but for the count of the calls
UpdateStep ==
  /\ Initialized
  /\ IF ~enabled
       THEN /\ UNCHANGED << stars, meteorites, camera, score, dom, selectPending,
                            slowFrames >>
            /\ op' = [name |-> "update", raw |-> 0, deltaTime |-> 0, pre |-> stars,
                      meteorites |-> meteorites, camera |-> camera]
            /\ events' = << >>
            /\ aborted' = FALSE
            /\ visited' = {}
       ELSE \E raw \in RawDeltaTimes :
            \E u \in { update(raw) } :
              /\ raw > 10 => slowFrames < MaxSlowFrames
              /\ slowFrames' = IF raw > 10 THEN slowFrames + 1 ELSE slowFrames
              /\ op' = [name |-> "update", raw |-> raw, deltaTime |-> DeltaTime(raw),
                        pre |-> stars, meteorites |-> meteorites, camera |-> camera]
              /\ stars' = u.stars
              /\ score' = u.score
              /\ events' = u.events
              /\ aborted' = u.threw
              /\ visited' = u.visited
              /\ selectPending' = u.pending
              /\ meteorites' = u.meteorites
              /\ dom' = u.dom
              /\ camera' = u.camera
  /\ UNCHANGED << holes, enabled, activeHole, selectedStar, shots, inits,
                  gamePaused, moves >>

Update ==
  /\ ticks < MaxTicks
  /\ UpdateStep
  /\ ticks' = ticks + 1
  /\ UNCHANGED << game, timers, mobile >>

\* update(gameState), frame after frame without end: of the count of the
\* calls only the parity is kept
UpdateForever ==
  /\ UpdateStep
  /\ ticks' = (ticks + 1) % 2
  /\ UNCHANGED << game, timers, mobile >>

\* the step that every call of update takes, and no other step: the count of
\* the calls changes
FrameDue ==
  /\ Initialized
  /\ ticks' = (ticks + 1) % 2

\* indices of the stars that are neither moving nor in a hole, in stored order
AvailableStars(ss) ==
  SelectSeq([i \in 1..Len(ss) |-> i], LAMBDA i : ~ss[i].moving /\ ~ss[i].inHole)

\* findIndex of the selected id among the available stars, from 0, or -1
SelectedIndex(ss, avail, sel) ==
  IF \E k \in 1..Len(avail) : ss[avail[k]].id = sel
    THEN (CHOOSE k \in 1..Len(avail) : ss[avail[k]].id = sel) - 1
    ELSE 0 - 1

\* the selection after switchActiveStar()
switchActiveStar(ss, sel) ==
  LET availableStars == AvailableStars(ss)
  IN  IF Len(availableStars) = 0 THEN sel
      ELSE LET selectedIndex == IF sel # "null"
                                  THEN SelectedIndex(ss, availableStars, sel)
                                  ELSE 0 - 1
               nextIndex == (selectedIndex + 1) % Len(availableStars)
           IN  ss[availableStars[nextIndex + 1]].id

SwitchActiveStar ==
  /\ Initialized
  /\ selectedStar' = switchActiveStar(stars, selectedStar)
  /\ selectedStar' # selectedStar
  /\ UNCHANGED << stars, holes, meteorites, enabled, activeHole, camera, score,
                  dom, op, events, aborted, visited, selectPending,
                  shots, ticks, slowFrames, inits, gamePaused, moves,
                  game, timers, mobile >>

\* resetStars, had it left the inHole flag as it was
ResetStar_KeepsInHole(star, i) ==
  [star EXCEPT !.x = basePositions[i].x, !.y = basePositions[i].y,
               !.vx = 0, !.vy = 0, !.moving = FALSE, !.rotation = 0]

\* the star at index i after resetStars()
ResetStar(star, i) ==
  [star EXCEPT !.x = basePositions[i].x, !.y = basePositions[i].y,
               !.vx = 0, !.vy = 0, !.moving = FALSE, !.inHole = FALSE,
               !.rotation = 0]

RECURSIVE ResetElements(_, _, _)
ResetElements(d, ss, i) ==
  IF i > Len(ss) THEN d
  ELSE ResetElements(updateStarElement(d, ss[i]), ss, i + 1)

ResetStars ==
  /\ Initialized
  /\ Len(stars) > 0
  /\ stars' = [i \in 1..Len(stars) |-> ResetStar(stars[i], i)]
  /\ stars' # stars
  /\ dom' = ResetElements(dom, stars', 1)
  /\ selectedStar' = "star1"
  /\ op' = NoOp("resetStars")
  /\ events' = << >>
  /\ aborted' = FALSE
  /\ visited' = {}
  /\ UNCHANGED << holes, meteorites, enabled, activeHole, camera, score,
                  selectPending, shots, ticks, slowFrames, inits,
                  gamePaused, moves, game, timers, mobile >>

\* keys the keydown handler tells apart
Keys == { "Escape", " ", "ArrowLeft", "ArrowRight", "ArrowUp", "ArrowDown" }

\* the camera after an arrow key: 20 px per press
ArrowCamera(cam, key) ==
  CASE key = "ArrowLeft"  -> [cam EXCEPT !.x = @ - 2000]
    [] key = "ArrowRight" -> [cam EXCEPT !.x = @ + 2000]
    [] key = "ArrowUp"    -> [cam EXCEPT !.y = @ - 2000]
    [] key = "ArrowDown"  -> [cam EXCEPT !.y = @ + 2000]
    [] OTHER              -> cam

\* handleKeyDown(event) while the game is active: Escape toggles the pause;
\* the other keys act only while the game is not paused
HandleKeyDown ==
  /\ Initialized
  /\ moves < MaxMoves
  /\ \E key \in Keys :
       /\ gamePaused' = IF key = "Escape" THEN ~gamePaused ELSE gamePaused
       /\ selectedStar' = IF key = " " /\ ~gamePaused
                            THEN switchActiveStar(stars, selectedStar)
                            ELSE selectedStar
       /\ camera' = IF ~gamePaused THEN ArrowCamera(camera, key) ELSE camera
  /\ moves' = moves + 1
  /\ UNCHANGED << stars, holes, meteorites, enabled, activeHole, score, dom, op,
                  events, aborted, visited, selectPending, shots, ticks,
                  slowFrames, inits, game, timers, mobile >>

\* minimum distance of a swipe on either axis
swipeThreshold == 5000

\* touchend minus touchstart of the touches that handleTouchEnd takes for a swipe
Swipes == { << 6000, 1000 >>, << 0 - 2000, 0 - 7000 >> }

\* the camera after handleSwipe(deltaX, deltaY)
handleSwipe(cam, deltaX, deltaY) ==
  IF Abs(deltaX) > Abs(deltaY)
    THEN [cam EXCEPT !.x = @ - Trunc(deltaX * 5, 10)]
    ELSE [cam EXCEPT !.y = @ - Trunc(deltaY * 5, 10)]

\* handleTouchEnd of the mobile system for a touch that began while the game
\* was active and not paused and that moved further than the swipe threshold
HandleSwipe ==
  /\ Initialized
  /\ ~gamePaused
  /\ moves < MaxMoves
  /\ \E d \in Swipes :
       /\ Abs(d[1]) > swipeThreshold \/ Abs(d[2]) > swipeThreshold
       /\ camera' = handleSwipe(camera, d[1], d[2])
  /\ moves' = moves + 1
  /\ UNCHANGED << stars, holes, meteorites, enabled, activeHole, selectedStar,
                  score, dom, op, events, aborted, visited, selectPending, shots,
                  ticks, slowFrames, inits, gamePaused, game, timers, mobile >>

\* gameLoop(timestamp) while the game is active: physics is stepped unless the
\* game is paused
GameLoop ==
  /\ ~gamePaused
  /\ Update

-----------------------------------------------------------------------------
(* The game: its life cycle, its timers and its mouse and touch handlers *)

\* the boards the game is played on: two stars and a hole above the first,
\* and a board with one star only; no meteorite
GameDocuments ==
  { [ stars |-> << At(800, 400), At(824, 383), Missing >>,
      holes |-> << HoleAt(800, 375, TRUE) >>,
      meteorites |-> << >>,
      board |-> [offsetWidth |-> 160000, offsetHeight |-> 80000] ],
    [ stars |-> << At(800, 400), Missing, Missing >>,
      holes |-> << HoleAt(800, 375, TRUE) >>,
      meteorites |-> << >>,
      board |-> [offsetWidth |-> 160000, offsetHeight |-> 80000] ] }

InitGame == InitOn(GameDocuments)

\* settings.timeLimit of the settings startGame is called with, in seconds
TimeLimits == { 1, 2 }

\* startPos - currentPos after a mousemove, in hundredths of a pixel
MouseDrags == { << 0, 0 >>, << 0, 0 - 500 >>, << 0, 0 - 1500 >>, << 18000, 24000 >> }

\* what a mousedown can hit: the element of a star, or anything else
MouseTargets == { "star1", "star2", "board" }

\* the id the browser returns for a new request: a positive number that no
\* pending callback has and no handle holds (the least such number)
FreshId(used) ==
  CHOOSE n \in 1..(Cardinality(used) + 1) :
    n \notin used /\ \A k \in 1..(n - 1) : k \in used

NewFrameId(pending) == FreshId(pending \cup { game.gameLoopId })

NewTimerId ==
  FreshId(timers.intervals \cup timers.timeouts
            \cup { game.timerInterval, mobile.longPressTimer })

\* clearInterval(id), clearTimeout(id): intervals and timeouts share their ids
ClearTimer(t, id) == [t EXCEPT !.intervals = @ \ { id }, !.timeouts = @ \ { id }]

\* cancelAnimationFrame(id)
CancelFrame(t, id) == [t EXCEPT !.frames = @ \ { id }]

\* startGame(settings): the state is reset, the level initialized, a frame
\* requested and the countdown interval set
StartGame ==
  /\ inits < MaxStarts
  /\ \E timeLimit \in TimeLimits :
       LET frame == NewFrameId(timers.frames)
           interval == NewTimerId
       IN  /\ game' = [game EXCEPT !.gameActive = TRUE, !.gameOver = FALSE,
                                   !.level = 1,
                                   !.timeLeft = IF timeLimit = 0 THEN 60 ELSE timeLimit,
                                   !.gameLoopId = frame,
                                   !.timerInterval = interval,
                                   !.endGames = 0]
           /\ timers' = [timers EXCEPT !.frames = @ \cup { frame },
                                       !.intervals = @ \cup { interval }]
  /\ gamePaused' = FALSE
  /\ score' = 0
  /\ camera' = [x |-> 80000, y |-> 40000]
  /\ InitializeStep
  /\ UNCHANGED mobile

\* startGame, called once
StartOnce ==
  /\ inits = 0
  /\ StartGame

\* the game fields after endGame()
endGame(g) ==
  [g EXCEPT !.gameActive = FALSE, !.gameOver = TRUE, !.endGames = @ + 1]

\* the pending callbacks after endGame() and after cleanup()
ClearTimers(t, g) == CancelFrame(ClearTimer(t, g.timerInterval), g.gameLoopId)

\* endGame(), called from outside the game
EndGame ==
  /\ Initialized
  /\ game.endGames < MaxEndGames
  /\ game' = endGame(game)
  /\ timers' = ClearTimers(timers, game)
  /\ UNCHANGED << stars, holes, meteorites, enabled, activeHole, camera,
                  selectedStar, score, dom, op, events, aborted, visited,
                  selectPending, shots, ticks, slowFrames, inits, gamePaused,
                  moves, mobile >>

\* cleanup(): the game, then the engine and the mobile system
Cleanup ==
  /\ Initialized
  /\ game' = [game EXCEPT !.gameActive = FALSE]
  /\ timers' = LET t == ClearTimers(timers, game)
               IN  IF mobile.longPressTimer # 0
                     THEN ClearTimer(t, mobile.longPressTimer)
                     ELSE t
  /\ enabled' = FALSE
  /\ stars' = << >>
  /\ holes' = << >>
  /\ meteorites' = << >>
  /\ UNCHANGED << activeHole, camera, selectedStar, score, dom, op, events,
                  aborted, visited, selectPending, shots, ticks, slowFrames,
                  inits, gamePaused, moves, mobile >>

\* updateTimer, had it left the end of the game to the game loop
TimeIsUp_Never(g) == FALSE

\* updateTimer: the test made after the decrement
TimeIsUp(g) == g.timeLeft <= 0

\* updateTimer(), the callback of a countdown interval
UpdateTimer ==
  /\ timers.intervals # {}
  /\ IF ~game.gameActive \/ gamePaused
       THEN UNCHANGED << game, timers >>
       ELSE LET g == [game EXCEPT !.timeLeft = @ - 1]
            IN  IF TimeIsUp(g)
                  THEN /\ game' = endGame(g)
                       /\ timers' = ClearTimers(timers, g)
                  ELSE /\ game' = g
                       /\ UNCHANGED timers
  /\ UNCHANGED << stars, holes, meteorites, enabled, activeHole, camera,
                  selectedStar, score, dom, op, events, aborted, visited,
                  selectPending, shots, ticks, slowFrames, inits, gamePaused,
                  moves, mobile >>

\* checkAllStarsInHoles(): a placeholder that returns false
checkAllStarsInHoles(ss) == FALSE

\* gameLoop(timestamp), the callback of a requested frame. The next frame is
\* requested by the last statement, which an exception on the way skips
GameLoopFrame ==
  \E id \in timers.frames :
    LET pending == timers.frames \ { id }
        next == NewFrameId(pending)
        again == [timers EXCEPT !.frames = pending \cup { next }]
    IN  IF ~game.gameActive \/ gamePaused
          THEN /\ game' = [game EXCEPT !.gameLoopId = next]
               /\ timers' = again
               /\ UNCHANGED << stars, holes, meteorites, enabled, activeHole,
                               camera, selectedStar, score, dom, op, events,
                               aborted, visited, selectPending, shots, ticks,
                               slowFrames, inits, gamePaused, moves, mobile >>
          ELSE /\ ticks < MaxTicks
               /\ UpdateStep
               /\ ticks' = ticks + 1
               /\ UNCHANGED mobile
               /\ IF aborted'
                    THEN /\ timers' = [timers EXCEPT !.frames = pending]
                         /\ UNCHANGED game
                    ELSE /\ ~checkAllStarsInHoles(stars')
                         /\ IF game.timeLeft <= 0
                              THEN /\ game' =
                                        IF CallThrows("checkGameEndAchievements")
                                          THEN endGame(game)
                                          ELSE [endGame(game) EXCEPT !.gameLoopId = next]
                                   /\ timers' =
                                        LET t == ClearTimers([timers EXCEPT !.frames = pending], game)
                                        IN  IF CallThrows("checkGameEndAchievements")
                                              THEN t
                                              ELSE [t EXCEPT !.frames = @ \cup { next }]
                              ELSE /\ game' = [game EXCEPT !.gameLoopId = next]
                                   /\ timers' = again

\* handleMouseDown, had it accepted every star
Draggable_AnyStar(ss, i) == i # 0

\* handleMouseDown: the star found for the element hit is one to drag, neither
\* in motion nor in a hole
Draggable(ss, i) == i # 0 /\ ~ss[i].moving /\ ~ss[i].inHole

\* handleMouseDown(event): a star at rest is selected and the drag begins
HandleMouseDown ==
  /\ game.gameActive
  /\ ~gamePaused
  /\ \E target \in MouseTargets :
       /\ Draggable(stars, FindStar(stars, target))
       /\ selectedStar' = target
  /\ game' = [game EXCEPT !.dragging = TRUE, !.drag = << 0, 0 >>]
  /\ UNCHANGED << stars, holes, meteorites, enabled, activeHole, camera, score,
                  dom, op, events, aborted, visited, selectPending, shots,
                  ticks, slowFrames, inits, gamePaused, moves, timers, mobile >>

\* handleMouseMove(event): the current position of the drag is recorded
HandleMouseMove ==
  /\ game.gameActive
  /\ game.dragging
  /\ \E d \in MouseDrags : game' = [game EXCEPT !.drag = d]
  /\ UNCHANGED << stars, holes, meteorites, enabled, activeHole, camera,
                  selectedStar, score, dom, op, events, aborted, visited,
                  selectPending, shots, ticks, slowFrames, inits, gamePaused,
                  moves, timers, mobile >>

\* handleMouseUp(event): the selected star is shot when the drag is longer
\* than 10 px, and the drag ends
HandleMouseUp ==
  /\ game.gameActive
  /\ game.dragging
  /\ LET dx == game.drag[1]
         dy == game.drag[2]
         dragDistance == DragDistance(dx, dy)
     IN  IF dragDistance > 1000
           THEN /\ shots < MaxShots
                /\ stars' = shootStar(stars, selectedStar, dx, dy, dragDistance)
                /\ op' = [name |-> "shootStar", star |-> FindStar(stars, selectedStar),
                          pre |-> stars, dx |-> dx, dy |-> dy,
                          dragDistance |-> dragDistance]
                /\ shots' = shots + 1
                /\ events' = << >>
                /\ aborted' = FALSE
                /\ visited' = {}
           ELSE UNCHANGED << stars, op, shots, events, aborted, visited >>
  /\ game' = [game EXCEPT !.dragging = FALSE]
  /\ UNCHANGED << holes, meteorites, enabled, activeHole, camera, selectedStar,
                  score, dom, selectPending, ticks, slowFrames, inits,
                  gamePaused, moves, timers, mobile >>

\* handleKeyDown(event) with the Escape key or the space bar
HandleSelectionKey ==
  /\ game.gameActive
  /\ \E key \in { "Escape", " " } :
       /\ gamePaused' = IF key = "Escape" THEN ~gamePaused ELSE gamePaused
       /\ selectedStar' = IF key = " " /\ ~gamePaused
                            THEN switchActiveStar(stars, selectedStar)
                            ELSE selectedStar
  /\ UNCHANGED << stars, holes, meteorites, enabled, activeHole, camera, score,
                  dom, op, events, aborted, visited, selectPending, shots, ticks,
                  slowFrames, inits, moves, game, timers, mobile >>

\* MobileSystem.handleTouchStart(e): the long-press timer is started
MobileTouchStart ==
  /\ Initialized
  /\ Cardinality(timers.timeouts) < MaxTimeouts
  /\ IF ~game.gameActive \/ gamePaused
       THEN /\ mobile' = [mobile EXCEPT !.lastTouch = "touchstart"]
            /\ UNCHANGED timers
       ELSE LET timer == NewTimerId
            IN  /\ mobile' = [touchActive |-> TRUE, longPressTimer |-> timer,
                              lastTouch |-> "touchstart"]
                /\ timers' = [timers EXCEPT !.timeouts = @ \cup { timer }]
  /\ UNCHANGED << stars, holes, meteorites, enabled, activeHole, camera,
                  selectedStar, score, dom, op, events, aborted, visited,
                  selectPending, shots, ticks, slowFrames, inits, gamePaused,
                  moves, game >>

\* handleTouchMove and handleTouchEnd return at once for a touch that
\* handleTouchStart did not take, and while the game is not active or paused
TouchIgnored == ~mobile.touchActive \/ ~game.gameActive \/ gamePaused

\* MobileSystem.handleTouchMove(e): the long-press timer is cancelled
MobileTouchMove ==
  /\ Initialized
  /\ IF TouchIgnored
       THEN /\ mobile' = [mobile EXCEPT !.lastTouch = "touchmove"]
            /\ UNCHANGED timers
       ELSE IF mobile.longPressTimer # 0
         THEN /\ timers' = ClearTimer(timers, mobile.longPressTimer)
              /\ mobile' = [mobile EXCEPT !.longPressTimer = 0,
                                          !.lastTouch = "touchmove"]
         ELSE /\ mobile' = [mobile EXCEPT !.lastTouch = "touchmove"]
              /\ UNCHANGED timers
  /\ UNCHANGED << stars, holes, meteorites, enabled, activeHole, camera,
                  selectedStar, score, dom, op, events, aborted, visited,
                  selectPending, shots, ticks, slowFrames, inits, gamePaused,
                  moves, game >>

\* where a touch can end, relative to where it began: a tap or a swipe
TouchDeltas == Swipes \cup { << 0, 0 >> }

\* MobileSystem.handleTouchEnd(e): the long-press timer is cancelled, a swipe
\* moves the camera, and the touch is over
MobileTouchEnd ==
  /\ Initialized
  /\ IF TouchIgnored
       THEN /\ mobile' = [mobile EXCEPT !.lastTouch = "touchend"]
            /\ UNCHANGED << timers, camera, moves >>
       ELSE /\ timers' = ClearTimer(timers, mobile.longPressTimer)
            /\ mobile' = [touchActive |-> FALSE, longPressTimer |-> 0,
                          lastTouch |-> "touchend"]
            /\ \E d \in TouchDeltas :
                 IF Abs(d[1]) > swipeThreshold \/ Abs(d[2]) > swipeThreshold
                   THEN /\ moves < MaxMoves
                        /\ camera' = handleSwipe(camera, d[1], d[2])
                        /\ moves' = moves + 1
                   ELSE UNCHANGED << camera, moves >>
  /\ UNCHANGED << stars, holes, meteorites, enabled, activeHole, selectedStar,
                  score, dom, op, events, aborted, visited, selectPending, shots,
                  ticks, slowFrames, inits, gamePaused, game >>

\* the selection after handleLongPress(touch)
handleLongPress(sel) ==
  IF game.gameActive /\ ~gamePaused THEN switchActiveStar(stars, sel) ELSE sel

\* a long-press timeout expires and its callback runs handleLongPress
LongPressExpires ==
  /\ \E id \in timers.timeouts : timers' = [timers EXCEPT !.timeouts = @ \ { id }]
  /\ selectedStar' = handleLongPress(selectedStar)
  /\ UNCHANGED << stars, holes, meteorites, enabled, activeHole, camera, score,
                  dom, op, events, aborted, visited, selectPending, shots, ticks,
                  slowFrames, inits, gamePaused, moves, game, mobile >>

\* handleLongPress(touch), whenever the touches of the player make it run
HandleLongPress ==
  /\ Initialized
  /\ selectedStar' = handleLongPress(selectedStar)
  /\ UNCHANGED << stars, holes, meteorites, enabled, activeHole, camera, score,
                  dom, op, events, aborted, visited, selectPending, shots, ticks,
                  slowFrames, inits, gamePaused, moves, game, timers, mobile >>

\* the game played with the mouse, the keyboard and long presses
NextGame ==
  \/ StartOnce
  \/ GameLoopFrame
  \/ UpdateTimer
  \/ HandleMouseDown
  \/ HandleMouseMove
  \/ HandleMouseUp
  \/ HandleSelectionKey
  \/ HandleLongPress

SpecGame == InitGame /\ [][NextGame]_vars

\* the life cycle of the game, driven from outside: startGame, endGame and
\* cleanup in any order, with the frames and the timer ticks in between
NextLifecycle ==
  \/ StartGame
  \/ EndGame
  \/ Cleanup
  \/ GameLoopFrame
  \/ UpdateTimer

SpecLifecycle == InitGame /\ [][NextLifecycle]_vars

\* the countdown of the games started, with the pause
NextClock ==
  \/ StartGame
  \/ GameLoopFrame
  \/ UpdateTimer
  \/ HandleSelectionKey

SpecClock == InitGame /\ [][NextClock]_vars

\* the touches of a mobile device: the long-press timer, the swipes and the
\* pause
NextTouch ==
  \/ StartOnce
  \/ HandleSelectionKey
  \/ MobileTouchStart
  \/ MobileTouchMove
  \/ MobileTouchEnd
  \/ LongPressExpires

SpecTouch == InitGame /\ [][NextTouch]_vars

-----------------------------------------------------------------------------
(* The specifications *)

Next ==
  \/ Initialize
  \/ ShootStar
  \/ Update
  \/ SwitchActiveStar

Spec == Init /\ [][Next]_vars

\* the same with resetStars, which no code of the repository calls
NextReset ==
  \/ Initialize
  \/ ShootStar
  \/ Update
  \/ SwitchActiveStar
  \/ ResetStars

SpecReset == Init /\ [][NextReset]_vars

\* the engine on the boards crowded with meteorites
SpecHazards == InitHazards /\ [][Next]_vars

\* shootStar, called once
ShootOnce ==
  /\ shots = 0
  /\ ShootStar

\* the engine stepped for as long as the game runs: one shot, and updates
\* without end
NextFlight ==
  \/ Initialize
  \/ ShootOnce
  \/ SwitchActiveStar
  \/ UpdateForever

\* requestAnimationFrame keeps calling the game loop, which calls update: an
\* update is always possible once the engine is initialized, and it is the
\* only step that changes the count, so that fairness of FrameDue is fairness
\* of UpdateForever
SpecFlight == InitFlight /\ [][NextFlight]_vars /\ WF_ticks(FrameDue)

\* the game with its keyboard and swipe handlers
NextInput ==
  \/ Initialize
  \/ ShootStar
  \/ GameLoop
  \/ HandleKeyDown
  \/ HandleSwipe

SpecInput == Init /\ [][NextInput]_vars

-----------------------------------------------------------------------------
(* Properties *)

\* the star is within the capture threshold of the hole
InRange(star, hole) ==
  Distance(star.x - hole.x, star.y - hole.y) < collisionThreshold

\* the star overlaps the meteorite
Overlaps(star, meteorite) ==
  Distance(star.x - meteorite.x, star.y - meteorite.y) < star.radius + meteorite.radius

\* positions in events of the callbacks of the given type for the given star
EventsOf(type, id) ==
  { k \in 1..Len(events) : events[k].type = type /\ events[k].star = id }

ActiveHoles == { k \in 1..Len(holes) : holes[k].isActive }

\* C1: in every state reachable by initialize, shootStar and update, a star
\* whose inHole flag is true has velocity (0, 0), whatever other holes or
\* meteorites were in range of it in the step that captured it
C1_InHoleAtRest ==
  \A i \in 1..Len(stars) : stars[i].inHole => stars[i].vx = 0 /\ stars[i].vy = 0

\* a star captured by the last update while a hole that is not active was in
\* range of it too
C1_Witness ==
  /\ op.name = "update"
  /\ \E i \in visited :
       /\ stars[i].inHole
       /\ EventsOf("inHole", stars[i].id) # {}
       /\ \E k \in 1..Len(holes) : ~holes[k].isActive /\ InRange(stars[i], holes[k])

\* C2: in every state reachable by initialize, shootStar, update and
\* resetStars, no star has moving and inHole both true
C2_NotMovingInHole ==
  \A i \in 1..Len(stars) : ~(stars[i].moving /\ stars[i].inHole)

\* a star that sat in a hole has just been shot out of it
C2_Witness ==
  /\ op.name = "shootStar"
  /\ op.star # 0
  /\ op.pre[op.star].inHole
  /\ stars[op.star].moving

\* C3: when there are holes exactly one of them is active, and no hole is
\* active only when there are none
C3_OneActiveHole ==
  IF Len(holes) = 0 THEN ActiveHoles = {} ELSE Cardinality(ActiveHoles) = 1

\* there are two holes and the last update captured a star in the active one
C3_Witness ==
  /\ Len(holes) = 2
  /\ op.name = "update"
  /\ \E i \in visited : stars[i].inHole /\ EventsOf("inHole", stars[i].id) # {}
  /\ Cardinality(ActiveHoles) = 1
\* C4: setActiveHole is invoked right after every target-entered event: an
\* update that reported a star in the hole has selected the next target by
\* the time it ends
C4_SelectionFollowsCapture ==
  (op.name = "update" /\ \E k \in 1..Len(events) : events[k].type = "inHole")
    => ~selectPending

\* the star lies inside the board by at least its radius
InsideBoard(star) ==
  /\ star.radius <= star.x /\ star.x <= boardWidth - star.radius
  /\ star.radius <= star.y /\ star.y <= boardHeight - star.radius

\* C5: after every update every star, moving or not, lies inside the board by
\* at least its radius
C5_StarsInsideBoard ==
  op.name = "update" => \A i \in 1..Len(stars) : InsideBoard(stars[i])

\* the square of the star's speed
Speed2(star) == star.vx * star.vx + star.vy * star.vy

\* the last update tested star i against a hole or a meteorite it touched
Collided(i) ==
  /\ i \in visited
  /\ \/ \E k \in 1..Len(holes) : InRange(stars[i], holes[k])
     \/ EventsOf("hitMeteorite", stars[i].id) # {}

\* C6: a moving star that meets no hole and no meteorite in a step leaves the
\* step strictly slower than it entered it
C6_SpeedDecreases ==
  op.name = "update" =>
    \A i \in 1..Len(stars) :
      (op.pre[i].moving /\ ~op.pre[i].inHole /\ ~Collided(i))
        => Speed2(stars[i]) < Speed2(op.pre[i])

\* C7: shootStar on a star that is moving changes no star
C7_ShootMovingIsNoOp ==
  (op.name = "shootStar" /\ op.star # 0 /\ op.pre[op.star].moving)
    => stars = op.pre

\* C8: shootStar on a star that is in a hole changes no star
C8_ShootInHoleIsNoOp ==
  (op.name = "shootStar" /\ op.star # 0 /\ op.pre[op.star].inHole)
    => stars = op.pre

\* min(|d| * POWER_FACTOR, MAX_VELOCITY) for a drag of the given length
ShotPower(length) == Min(Trunc(length * POWER_FACTOR, 100), MAX_VELOCITY)

\* the component v is component d of the drag, over the drag's length, times
\* the power over the mass (to the last hundredth, which is truncated)
IsShotComponent(v, d, length, mass) ==
  /\ Abs(v * length * mass - d * ShotPower(length) * 10) < length * mass
  /\ v * d >= 0

C10_CaptureCompletes ==
  op.name = "update" =>
    \A i \in visited :
      (\E k \in ActiveHoles : InRange(stars[i], holes[k]))
        => /\ stars[i].inHole
           /\ ~stars[i].moving
           /\ stars[i].vx = 0 /\ stars[i].vy = 0
           /\ Cardinality(EventsOf("inHole", stars[i].id)) = 1

\* the last update tested a star within the threshold of the active hole and
\* of a hole after it that is not active
C10_Witness ==
  /\ op.name = "update"
  /\ \E i \in visited : \E k \in ActiveHoles : \E j \in 1..Len(holes) :
       /\ InRange(stars[i], holes[k])
       /\ j > k /\ ~holes[j].isActive /\ InRange(stars[i], holes[j])
\* the star's velocity has the given magnitude and points from (cx, cy) to
\* the star (to the last hundredth); at (cx, cy) itself atan2 gives angle 0
PointsAway(star, cx, cy, power) ==
  LET dx == star.x - cx
      dy == star.y - cy
      distance == Distance(dx, dy)
  IN  IF dx = 0 /\ dy = 0
        THEN star.vx = power /\ star.vy = 0
        ELSE /\ Abs(star.vx * distance - dx * power) < distance
             /\ Abs(star.vy * distance - dy * power) < distance

\* the last update tested star i against hole k: no active hole before k in
\* stored order had the star in range
HoleTested(i, k) ==
  /\ i \in visited
  /\ \A j \in 1..(k - 1) : ~(holes[j].isActive /\ InRange(stars[i], holes[j]))

\* C11 as stated: a star tested within the threshold of a hole that is not
\* active ends the step moving, with the repulsion velocity away from that
\* hole, and without an onStarInHole
C11_NudgedAwayAlways ==
  op.name = "update" =>
    \A i \in visited : \A k \in 1..Len(holes) :
      (HoleTested(i, k) /\ ~holes[k].isActive /\ InRange(stars[i], holes[k]))
        => /\ stars[i].moving
           /\ PointsAway(stars[i], holes[k].x, holes[k].y, holeBouncePower)
           /\ EventsOf("inHole", stars[i].id) = {}

\* C11, amended: a star tested within the threshold of a hole that is not
\* active, within the threshold of no other hole and hit by no meteorite in
\* the step, ends the step moving, with the repulsion velocity away from that
\* hole, and without an onStarInHole
C11_NudgedAway ==
  op.name = "update" =>
    \A i \in visited : \A k \in 1..Len(holes) :
      ( /\ ~holes[k].isActive
        /\ InRange(stars[i], holes[k])
        /\ \A j \in 1..Len(holes) : j # k => ~InRange(stars[i], holes[j])
        /\ EventsOf("hitMeteorite", stars[i].id) = {} )
        => /\ stars[i].moving
           /\ ~stars[i].inHole
           /\ PointsAway(stars[i], holes[k].x, holes[k].y, holeBouncePower)
           /\ EventsOf("inHole", stars[i].id) = {}

\* the last update pushed a star away from the one hole it was in range of
C11_Witness ==
  /\ op.name = "update"
  /\ \E i \in visited : \E k \in 1..Len(holes) :
       /\ ~holes[k].isActive
       /\ InRange(stars[i], holes[k])
       /\ \A j \in 1..Len(holes) : j # k => ~InRange(stars[i], holes[j])
       /\ EventsOf("hitMeteorite", stars[i].id) = {}
       /\ stars[i].x # holes[k].x
       /\ Speed2(stars[i]) > 0
\* the holes that had star i within the threshold in the last update
HolesInRange(i) == { k \in 1..Len(holes) : InRange(stars[i], holes[k]) }

\* C12: a star makes at most one hole transition in a step: once the first
\* active hole in range, in stored order, has captured it, no other hole in
\* range changes its state in that step: the star ends the step as the
\* capture left it, and its one onStarInHole is the last event of the step
C12_OneHoleTransition ==
  op.name = "update" =>
    \A i \in visited :
      EventsOf("inHole", stars[i].id) # {}
        => /\ Cardinality(EventsOf("inHole", stars[i].id)) = 1
           /\ HolesInRange(i) \cap ActiveHoles # {}
           /\ stars[i].inHole /\ ~stars[i].moving
           /\ stars[i].vx = 0 /\ stars[i].vy = 0
           /\ events[Len(events)] = [type |-> "inHole", star |-> stars[i].id]

\* the last update captured a star that had two holes within the threshold,
\* the one that is not active after the capturing one in stored order
C12_Witness ==
  /\ op.name = "update"
  /\ \E i \in visited :
       /\ EventsOf("inHole", stars[i].id) # {}
       /\ Cardinality(HolesInRange(i)) = 2
       /\ \E k \in HolesInRange(i) \cap ActiveHoles :
            \E j \in HolesInRange(i) \ ActiveHoles : k < j
\* the last update tested star i against the meteorites: no hole captured it
MeteoritesTested(i) ==
  /\ i \in visited
  /\ EventsOf("inHole", stars[i].id) = {}

\* position and velocity of a meteorite
Motion(m) == << m.x, m.y, m.vx, m.vy >>

Integrated(i) == Integrate(op.pre[i], op.deltaTime)

\* the coordinate p of a star of the given radius is beyond an edge of a board
\* of the given extent
BeyondEdge(p, radius, extent) == p < radius \/ p > extent - radius

\* the coordinate clamped to the edge it is beyond
Clamped(p, radius, extent) ==
  IF p < radius THEN radius ELSE IF p > extent - radius THEN extent - radius ELSE p

\* w is -v * restitution (restitution in tenths, to the last hundredth)
Reflected(w, v, restitution) ==
  /\ w * v <= 0
  /\ Abs(w) * 10 <= Abs(v) * restitution
  /\ Abs(w) * 10 > Abs(v) * restitution - 10
  /\ Abs(w) <= Abs(v)

\* nothing after the wall test of the last update changed the velocity of star i
Undisturbed(i) ==
  /\ HolesInRange(i) = {}
  /\ EventsOf("hitMeteorite", stars[i].id) = {}
  /\ stars[i].moving

\* C14: a wall bounce clamps the position to the edge, turns the velocity
\* component normal to the edge into -v * restitution, which is never larger
\* in magnitude, leaves the other component alone, and emits one onStarBounce
\* with the star's id per edge hit
C14_WallBounce ==
  op.name = "update" =>
    \A i \in visited :
      LET in == Integrated(i)
          radius == in.radius
          hitX == BeyondEdge(in.x, radius, boardWidth)
          hitY == BeyondEdge(in.y, radius, boardHeight)
      IN  /\ stars[i].x = Clamped(in.x, radius, boardWidth)
          /\ stars[i].y = Clamped(in.y, radius, boardHeight)
          /\ Cardinality(EventsOf("bounce", stars[i].id))
               = (IF hitX THEN 1 ELSE 0) + (IF hitY THEN 1 ELSE 0)
          /\ in.restitution \in 1..9
          /\ Undisturbed(i) =>
               /\ IF hitX THEN Reflected(stars[i].vx, in.vx, in.restitution)
                          ELSE stars[i].vx = in.vx
               /\ IF hitY THEN Reflected(stars[i].vy, in.vy, in.restitution)
                          ELSE stars[i].vy = in.vy

\* the last update bounced a star off one edge only and nothing else touched
\* its velocity
C14_Witness ==
  /\ op.name = "update"
  /\ \E i \in visited :
       /\ Undisturbed(i)
       /\ BeyondEdge(Integrated(i).y, stars[i].radius, boardHeight)
       /\ ~BeyondEdge(Integrated(i).x, stars[i].radius, boardWidth)
       /\ Integrated(i).vx # 0 /\ Integrated(i).vy # 0
       /\ Cardinality(EventsOf("bounce", stars[i].id)) = 1
\* the displacement of a velocity component v in a step: friction first, then
\* the multiplier (in tenths)
Displacement(v, multiplier) == Trunc(Trunc(v * friction, 100) * multiplier, 10)

\* C15: the multiplier update applies to integration is min(r, 3.0) for the
\* raw normalised frame time r: every star integrated without a wall bounce is
\* displaced by its velocity after friction times min(r, 3.0)
C15_MultiplierClamped ==
  op.name = "update" =>
    \A i \in visited :
      EventsOf("bounce", stars[i].id) = {}
        => /\ stars[i].x = op.pre[i].x
                             + Displacement(op.pre[i].vx, Min(op.raw, maxDeltaTime))
           /\ stars[i].y = op.pre[i].y
                             + Displacement(op.pre[i].vy, Min(op.raw, maxDeltaTime))
\* C16: in one update the integration of all bodies completes before the
\* collision resolution: the meteorite test of a star reads the meteorite
\* positions already advanced for that step, so in a completed update a
\* tested star that overlaps a meteorite where the step has put it has an
\* onStarHitMeteorite
C16_HazardAfterAdvance ==
  (op.name = "update" /\ ~aborted) =>
    \A i \in visited : \A k \in 1..Len(meteorites) :
      (MeteoritesTested(i) /\ Overlaps(stars[i], meteorites[k]))
        => EventsOf("hitMeteorite", stars[i].id) # {}

\* C17: every update that starts while the engine is enabled runs to
\* completion: no exception ends it, every star that was moving has been
\* integrated and tested, the meteorites are advanced and the camera is updated
C17_UpdateCompletes ==
  (op.name = "update" /\ enabled) =>
    /\ ~aborted
    /\ \A i \in 1..Len(stars) :
         (op.pre[i].moving /\ ~op.pre[i].inHole) => i \in visited
    /\ meteorites = updateMeteorites(op.meteorites, op.deltaTime)
    /\ camera = updateCamera(op.camera, stars)
\* the star is neither moving nor in a hole
Eligible(star) == ~star.moving /\ ~star.inHole

\* the id of the first eligible star after the selected one in stored order,
\* wrapping around and ending with the selected one itself; the selection as
\* it is when no star is eligible
NextEligibleAfter(ss, sel) ==
  LET n == Len(ss)
      p == FindStar(ss, sel)
      at(d) == ((p - 1 + d) % n) + 1
      steps == { d \in 1..n : Eligible(ss[at(d)]) }
  IN  IF steps = {} THEN sel
      ELSE ss[at(CHOOSE d \in steps : \A e \in steps : d <= e)].id

\* C18: switchActiveStar moves the selection to the next eligible star after
\* the selected one in stored order, with wrap-around, also when the selected
\* star is itself moving or in a hole
C18_NextEligibleStar ==
  [][SwitchActiveStar => selectedStar' = NextEligibleAfter(stars, selectedStar)]_vars
\* the stars that are moving and out of the holes
InFlight == { i \in 1..Len(stars) : stars[i].moving /\ ~stars[i].inHole }

\* C19: when no star is moving and out of the holes at the end of a step, the
\* update leaves the camera where it was
C19_CameraHolds ==
  (op.name = "update" /\ InFlight = {}) => camera = op.camera

\* the last update ran to its end, stopped the star it integrated and left no
\* star moving, away from where the camera is
C19_Witness ==
  /\ op.name = "update"
  /\ ~aborted
  /\ InFlight = {}
  /\ \E i \in visited :
       /\ ~stars[i].inHole
       /\ Abs(stars[i].x - camera.x) > 10000
  /\ camera = op.camera

\* the mean of the coordinate of the stars that are moving and out of the holes
Centroid(coord) ==
  Trunc(SumOver(stars, InFlight, coord), Cardinality(InFlight))

\* C20: when a star is moving and out of the holes after the collision
\* resolution, the step sets camera := camera + (centroid - camera) * 0.05,
\* whatever the elapsed time
C20_CameraFollows ==
  (op.name = "update" /\ InFlight # {}) =>
    /\ camera.x = op.camera.x + Trunc((Centroid("x") - op.camera.x) * cameraSpeed, 100)
    /\ camera.y = op.camera.y + Trunc((Centroid("y") - op.camera.y) * cameraSpeed, 100)

\* C21: the camera is written only by the camera-tracking step of update: a
\* step that changes camera.x or camera.y is an update
C21_CameraWrittenByUpdate ==
  [][camera' # camera => (op'.name = "update" /\ ticks' = ticks + 1)]_vars

\* the star's speed, as the stopping rule computes it
Speed(star) == MathSqrt(Speed2(star))

\* C22: at the end of every update every star that is still moving has a
\* speed of at least minSpeed, and a star whose speed is below minSpeed is at
\* rest with moving false: no star goes on moving below the threshold
C22_StoppingRule ==
  op.name = "update" =>
    \A i \in 1..Len(stars) :
      /\ stars[i].moving => Speed(stars[i]) >= minSpeed
      /\ Speed(stars[i]) < minSpeed
           => stars[i].vx = 0 /\ stars[i].vy = 0 /\ ~stars[i].moving

\* the last update had to skip star i: it was not moving, or it was in a hole
Skipped(i) == ~op.pre[i].moving \/ op.pre[i].inHole

\* C23: update skips every star that is not moving or is in a hole: the
\* star's record (position, velocity, rotation, flags) and its element are
\* what they were, its collision tests did not run and no callback names it
C23_SkipsStarsAtRest ==
  (op.name = "update" /\ enabled) =>
    \A i \in 1..Len(stars) :
      Skipped(i)
        => /\ stars[i] = op.pre[i]
           /\ i \notin visited
           /\ \A k \in 1..Len(events) : events[k].star # stars[i].id

\* the last update skipped a star that lay within the threshold of a hole and
\* overlapped a meteorite, and stepped another star
C23_Witness ==
  /\ op.name = "update"
  /\ enabled
  /\ visited # {}
  /\ \E i \in 1..Len(stars) :
       /\ Skipped(i)
       /\ \E k \in 1..Len(holes) : InRange(stars[i], holes[k])
       /\ \E k \in 1..Len(meteorites) : Overlaps(stars[i], op.meteorites[k])

\* meteorite m was advanced from m0 by one step of the given multiplier: moved
\* by its velocity, brought back to the edge it crossed with that velocity
\* component reversed
Advanced(m, m0, deltaTime) ==
  LET x1 == m0.x + Trunc(m0.vx * deltaTime, 10)
      y1 == m0.y + Trunc(m0.vy * deltaTime, 10)
  IN  /\ m.x = Clamped(x1, m0.radius, boardWidth)
      /\ m.y = Clamped(y1, m0.radius, boardHeight)
      /\ m.vx = IF BeyondEdge(x1, m0.radius, boardWidth) THEN 0 - m0.vx ELSE m0.vx
      /\ m.vy = IF BeyondEdge(y1, m0.radius, boardHeight) THEN 0 - m0.vy ELSE m0.vy

\* C24: every update that starts while the engine is enabled advances every
\* meteorite, whatever the stars do, and leaves it inside the board by at
\* least its radius with velocity components of unchanged magnitude
C24_MeteoritesAdvance ==
  (op.name = "update" /\ enabled) =>
    \A k \in 1..Len(meteorites) :
      /\ Advanced(meteorites[k], op.meteorites[k], op.deltaTime)
      /\ meteorites[k].radius <= meteorites[k].x
      /\ meteorites[k].x <= boardWidth - meteorites[k].radius
      /\ meteorites[k].radius <= meteorites[k].y
      /\ meteorites[k].y <= boardHeight - meteorites[k].radius
      /\ Abs(meteorites[k].vx) = Abs(op.meteorites[k].vx)
      /\ Abs(meteorites[k].vy) = Abs(op.meteorites[k].vy)

\* C25: a shootStar whose drag has length zero changes no star, whatever
\* dragDistance is passed, and ends without an exception and without a
\* callback
C25_ZeroDragIsNoOp ==
  (op.name = "shootStar" /\ op.dx = 0 /\ op.dy = 0)
    => /\ stars = op.pre
       /\ ~aborted
       /\ events = << >>

\* the selected star was at rest outside the holes, ready to be shot, and
\* shootStar was called with a drag of length zero and a dragDistance that is
\* not zero
C25_Witness ==
  /\ op.name = "shootStar"
  /\ op.dx = 0 /\ op.dy = 0
  /\ op.dragDistance > 0
  /\ op.star # 0
  /\ ~op.pre[op.star].moving /\ ~op.pre[op.star].inHole
  /\ enabled

\* the star without its velocity and its two flags
Rest(star) == [star EXCEPT !.vx = 0, !.vy = 0, !.moving = FALSE, !.inHole = FALSE]

\* the step is a shootStar that found the selected star, with the engine
\* enabled and a drag that is not zero
SuccessfulShot ==
  /\ shots' = shots + 1
  /\ op'.name = "shootStar"
  /\ op'.star # 0
  /\ enabled
  /\ << op'.dx, op'.dy >> # << 0, 0 >>

\* C26: a successful shootStar changes one star only: it gives that star a
\* velocity, moving = true and inHole = false and nothing else, and leaves
\* every other star, the holes, the meteorites, the camera and the score as
\* they were, without any callback
C26_ShotChangesOneStar ==
  [][SuccessfulShot =>
       /\ Len(stars') = Len(stars)
       /\ \A j \in 1..Len(stars) : j # op'.star => stars'[j] = stars[j]
       /\ Rest(stars'[op'.star]) = Rest(stars[op'.star])
       /\ stars'[op'.star].moving /\ ~stars'[op'.star].inHole
       /\ UNCHANGED << holes, meteorites, camera, score, activeHole, selectedStar >>
       /\ events' = << >>
       /\ ~aborted']_vars

\* a star was shot with a velocity while another star was moving
C26_Witness ==
  /\ op.name = "shootStar"
  /\ op.star # 0
  /\ enabled
  /\ << op.dx, op.dy >> # << 0, 0 >>
  /\ ~op.pre[op.star].moving /\ ~op.pre[op.star].inHole
  /\ stars[op.star].moving
  /\ stars[op.star].vx # 0 /\ stars[op.star].vy # 0
  /\ \E j \in 1..Len(stars) : j # op.star /\ stars[j].moving
  /\ Len(holes) > 0 /\ Len(meteorites) > 0

\* C27: on a board without holes setActiveHole ends without an exception and
\* makes no hole active, and from then on no star is captured (no inHole
\* flag, no onStarInHole) and no hole changes a velocity: a star that an
\* update tests without a wall bounce and without a meteorite hit keeps the
\* velocity friction left it, or is stopped by the speed threshold
C27_NoHoles ==
  (Initialized /\ Len(holes) = 0) =>
    /\ ActiveHoles = {}
    /\ activeHole = "null"
    /\ op.name = "initialize" => ~aborted
    /\ \A i \in 1..Len(stars) : ~stars[i].inHole
    /\ \A k \in 1..Len(events) : events[k].type # "inHole"
    /\ op.name = "update" =>
         \A i \in visited :
           ( /\ EventsOf("bounce", stars[i].id) = {}
             /\ EventsOf("hitMeteorite", stars[i].id) = {} )
             => \/ stars[i].vx = Integrated(i).vx /\ stars[i].vy = Integrated(i).vy
                \/ ~stars[i].moving /\ stars[i].vx = 0 /\ stars[i].vy = 0

\* on a board without holes the last update stepped a star that goes on moving
C27_Witness ==
  /\ Initialized
  /\ Len(holes) = 0
  /\ op.name = "update"
  /\ ~aborted
  /\ \E i \in visited :
       /\ stars[i].moving
       /\ EventsOf("bounce", stars[i].id) = {}

\* the document has a star, hole or meteorite element with an inline
\* coordinate in which parseInt finds no number (NaN)
Malformed(d) ==
  \/ \E i \in 1..Len(d.stars) :
       d.stars[i].present /\ (~d.stars[i].left.set \/ ~d.stars[i].top.set)
  \/ \E k \in 1..Len(d.holes) :
       ~d.holes[k].translate.set /\ (~d.holes[k].left.set \/ ~d.holes[k].top.set)
  \/ \E k \in 1..Len(d.meteorites) :
       ~d.meteorites[k].left.set \/ ~d.meteorites[k].top.set

\* C28: initialize on a malformed level (a coordinate that is not a finite
\* number) ends with a validation error and creates no body from it
C28_InitializeValidates ==
  (op.name = "initialize" /\ Malformed(dom)) =>
    /\ aborted
    /\ stars = << >> /\ holes = << >> /\ meteorites = << >>

\* C29: a star that the active hole captured in a step registers no hazard
\* collision in that step, even if it overlaps a meteorite: there is no
\* onStarHitMeteorite for it and it ends the step at rest in the hole
C29_NoHazardAfterCapture ==
  op.name = "update" =>
    \A i \in visited :
      EventsOf("inHole", stars[i].id) # {}
        => /\ EventsOf("hitMeteorite", stars[i].id) = {}
           /\ stars[i].vx = 0 /\ stars[i].vy = 0
           /\ stars[i].inHole /\ ~stars[i].moving

\* the last update captured a star where it overlaps a meteorite
C29_Witness ==
  /\ op.name = "update"
  /\ \E i \in visited :
       /\ EventsOf("inHole", stars[i].id) # {}
       /\ stars[i].inHole
       /\ \E k \in 1..Len(meteorites) : Overlaps(stars[i], op.meteorites[k])

\* the meteorites star i overlapped where the last update tested it (the
\* collisions of a step change a star's velocity, not its position)
HazardsOf(i) == { k \in 1..Len(meteorites) : Overlaps(stars[i], op.meteorites[k]) }

\* C30: a moving star that overlaps k meteorites when it is tested registers
\* k hazard collisions in that step: exactly k onStarHitMeteorite are emitted
\* for it, and, the forEach running in stored order to its end, the velocity
\* it is left with is the repulsion from the last of them
C30_EveryHazardRegisters ==
  op.name = "update" =>
    \A i \in visited :
      MeteoritesTested(i) =>
        /\ Cardinality(EventsOf("hitMeteorite", stars[i].id)) = Cardinality(HazardsOf(i))
        /\ HazardsOf(i) # {} =>
             LET last == CHOOSE k \in HazardsOf(i) : \A j \in HazardsOf(i) : j <= k
             IN  PointsAway(stars[i], op.meteorites[last].x, op.meteorites[last].y,
                            meteoriteBouncePower)

\* C31: every shot ends: a star that is moving is, after finitely many
\* updates, not moving any more
C31_ShotEnds ==
  \A i \in 1..Len(starElements) :
    (Len(stars) >= i /\ stars[i].moving) ~> (Len(stars) >= i /\ ~stars[i].moving)

\* C32: whatever the mouse, the keyboard, the long presses and the frames did
\* before, a shootStar call made by handleMouseUp finds the selected star
\* neither moving nor in a hole
C32_MouseUpShootsStarAtRest ==
  [][shots' = shots + 1 =>
       LET i == FindStar(stars, selectedStar)
       IN  i # 0 /\ ~stars[i].moving /\ ~stars[i].inHole]_vars

\* a drag shot star2 while star1, shot by an earlier drag, was still in flight
C32_Witness ==
  /\ op.name = "shootStar"
  /\ op.star = 2
  /\ stars[2].moving
  /\ stars[1].moving
  /\ ~game.dragging

\* C33: an execution of gameLoop that steps the physics and leaves the game
\* active has requested the next frame: the handle gameLoopId is that of a
\* pending request
C33_LoopStaysScheduled ==
  [][(ticks' = ticks + 1 /\ game'.gameActive) =>
       game'.gameLoopId \in timers'.frames]_vars

\* C34: at any time at most one countdown interval and at most one request
\* of a game loop frame are pending
C34_OneIntervalOneLoop ==
  /\ Cardinality(timers.intervals) <= 1
  /\ Cardinality(timers.frames) <= 1

\* C36: once the game was started timeLeft is never negative, the game is
\* over as soon as timeLeft is 0, endGame has run at most once for the game
\* started last, and timeLeft does not change while the game is over
C36_CountdownEndsGameOnce ==
  [][/\ game'.timeLeft >= 0
     /\ game'.timeLeft = 0 => (~game'.gameActive /\ game'.gameOver)
     /\ game'.endGames <= 1
     /\ (game.gameOver /\ game'.gameOver) => game'.timeLeft = game.timeLeft]_vars

\* the countdown of a game started while another was running went from 2 to 0
\* and ended the game, and a tick of the other interval came after that
C36_Witness ==
  /\ inits = 2
  /\ game.timeLeft = 0
  /\ game.gameOver
  /\ ~game.gameActive
  /\ game.endGames = 1
  /\ timers.intervals # {}

\* C35: a step that begins and ends with the game paused changes no star, no
\* meteorite and not timeLeft
C35_FrozenWhilePaused ==
  [][(gamePaused /\ gamePaused') =>
       /\ stars' = stars
       /\ meteorites' = meteorites
       /\ game'.timeLeft = game.timeLeft]_vars

\* every star of the board is in a hole
AllStarsInHoles(ss) == Len(ss) > 0 /\ \A i \in 1..Len(ss) : ss[i].inHole

\* C37: a frame of the game loop that steps the physics and finds every star
\* in a hole completes the level: the level number is one more than before
C37_LevelCompletes ==
  [][(ticks' = ticks + 1 /\ AllStarsInHoles(stars')) =>
       game'.level = game.level + 1]_vars

\* C38: once a touchmove or a touchend has been handled, and until the next
\* touchstart, no long-press timer is pending
C38_NoTimerAfterMoveOrEnd ==
  mobile.lastTouch \in { "touchmove", "touchend" } => timers.timeouts = {}

\* C39: a star that is in a hole before and after a step is where it was: its
\* position changes only in a step that takes it out of the hole (a shot, a
\* reset)
C39_SettledStarStaysPut ==
  [][\A i \in 1..Len(stars) :
       (stars[i].inHole /\ Len(stars') >= i /\ stars'[i].inHole) =>
         (stars'[i].x = stars[i].x /\ stars'[i].y = stars[i].y)]_vars

\* an update moved a star while another star, captured before, lay in its hole
C39_Witness ==
  /\ op.name = "update"
  /\ \E i, j \in 1..Len(stars) :
       /\ op.pre[i].inHole
       /\ stars[i].inHole
       /\ op.pre[j].moving
       /\ << stars[j].x, stars[j].y >> # << op.pre[j].x, op.pre[j].y >>

=============================================================================
